---- MODULE Spec2Model ----
(***************************************************************************)
(* Model of the website scanner (src/scanner.py, src/main.py).             *)
(*                                                                         *)
(* Strings the code inspects character by character (the raw URL given to  *)
(* clean_url, the page title searched by check_url) are sequences of       *)
(* one-character strings.  Characters outside ASCII are written by their   *)
(* code point ("u0432" is CYRILLIC SMALL LETTER VE).                       *)
(***************************************************************************)
EXTENDS Integers, Sequences, FiniteSets, TLC

VARIABLES
    url,            \* perform_scan: the raw form field
    cleaned_url,    \* perform_scan: clean_url(url)
    pc,             \* position of the thread running perform_scan/scanner
    host,           \* scanner: the normalized host
    results,        \* scanner: the Finding list
    raised,         \* the exception that left scanner, and the call it came from
    connect,        \* network: outcome of the TCP connect to each port
    max_workers,    \* check_ports_multithreaded: the executor's worker cap
    port_pc,        \* position of the thread running check_ports_multithreaded
    fut,            \* check_ports_multithreaded: state of each port's future
    fut_result,     \* check_ports_multithreaded: outcome stored in each future
    open_ports,     \* check_ports_multithreaded: the open_ports list
    ssl_env,        \* network/clock: what the TLS handshake to the host meets
    ssl_pc,         \* position of the worker running check_ssl_expiry
    ssl_result,     \* scanner: the outcome held by ssl_future
    server,         \* network: the response the host gives to each URL variant
    cache,          \* check_url: the default-argument dict
    http_log,       \* network: the GET requests issued, in order
    port_i,         \* scanner: index in open_ports of the port being checked
    path_i,         \* check_api_docs: index in possible_paths of the next path
    port_results,   \* check_api_docs: its local results list
    document,       \* file system: the sheets under document/, by file name
    attempts,       \* network: the number of connects made to each port
    scans           \* web layer: the state of each request to /scan

vars == <<url, cleaned_url, pc, host, results, raised, connect, max_workers,
          port_pc, fut, fut_result, open_ports, ssl_env, ssl_pc, ssl_result,
          server, cache, http_log, port_i, path_i, port_results, document,
          attempts, scans>>

----------------------------------------------------------------------------
(* Bounds of the model *)

\* longest raw URL given to clean_url
MaxLen == 5
\* the candidate ports are the first NumPorts of common_ports
NumPorts == 2
\* the candidate paths are the first NumPaths of possible_paths
NumPaths == 2
\* number of requests to /scan the web layer serves
NumScans == 2
\* largest number of whole days between now and the certificate's expiry
MaxDays == 31
\* longest Finding list given to save_to_excel on its own
MaxRows == 3

----------------------------------------------------------------------------
(* Characters and strings *)

UpperChars == <<"A","B","C","D","E","F","G","H","I","J","K","L","M","N","O","P",
                "Q","R","S","T","U","V","W","X","Y","Z","u0410","u0412">>
LowerChars == <<"a","b","c","d","e","f","g","h","i","j","k","l","m","n","o","p",
                "q","r","s","t","u","v","w","x","y","z","u0430","u0432">>
Digits == {"0","1","2","3","4","5","6","7","8","9"}

ToSet(s) == {s[i] : i \in 1..Len(s)}

\* str.lower() on one character
LowerChar(c) ==
    IF \E i \in 1..Len(UpperChars) : UpperChars[i] = c
    THEN LowerChars[CHOOSE i \in 1..Len(UpperChars) : UpperChars[i] = c]
    ELSE c

\* str.lower()
Lower(s) == [i \in 1..Len(s) |-> LowerChar(s[i])]

\* str.find(c, from): the first index >= from holding c, 0 when there is none
\* (indices from 1)
Find(s, c, from) ==
    IF \E i \in from..Len(s) : s[i] = c
    THEN CHOOSE i \in from..Len(s) : s[i] = c /\ \A j \in from..(i-1) : s[j] # c
    ELSE 0

\* pat in s
Contains(pat, s) ==
    \E i \in 0..(Len(s) - Len(pat)) : SubSeq(s, i + 1, i + Len(pat)) = pat

\* every string over alphabet of length at most n
StringsUpTo(alphabet, n) == UNION {[1..k -> alphabet] : k \in 0..n}

----------------------------------------------------------------------------
(* clean_url: urllib.parse.urlparse, then netloc or path *)

IsAsciiAlpha(c) == c \in (ToSet(UpperChars) \cup ToSet(LowerChars)) \ {"u0410","u0412","u0430","u0432"}
scheme_chars == (ToSet(UpperChars) \cup ToSet(LowerChars) \cup Digits \cup {"+","-","."})
                    \ {"u0410","u0412","u0430","u0432"}

\* urlsplit: the scheme is url[:i] for the first ":" when i > 0, url[0] is a
\* letter and url[:i] holds scheme characters only
HasScheme(u) ==
    LET i == Find(u, ":", 1)
    IN  /\ i > 1
        /\ IsAsciiAlpha(u[1])
        /\ \A k \in 1..(i-1) : u[k] \in scheme_chars

AfterScheme(u) ==
    IF HasScheme(u) THEN SubSeq(u, Find(u, ":", 1) + 1, Len(u)) ELSE u

\* _splitnetloc(url, 2): the netloc ends at the first of "/", "?", "#"
NetlocEnd(u) ==
    LET ds == {Find(u, c, 3) : c \in {"/","?","#"}} \ {0}
    IN  IF ds = {} THEN Len(u) + 1
        ELSE CHOOSE d \in ds : \A e \in ds : d <= e

HasNetloc(u) == Len(u) >= 2 /\ u[1] = "/" /\ u[2] = "/"

\* the text before the first c, all of it when there is no c
Before(s, c) == IF Find(s, c, 1) = 0 THEN s ELSE SubSeq(s, 1, Find(s, c, 1) - 1)

urlparse(u) ==
    LET rest   == AfterScheme(u)
        netloc == IF HasNetloc(rest) THEN SubSeq(rest, 3, NetlocEnd(rest) - 1) ELSE <<>>
        tail   == IF HasNetloc(rest) THEN SubSeq(rest, NetlocEnd(rest), Len(rest)) ELSE rest
    IN  [scheme |-> IF HasScheme(u) THEN Lower(SubSeq(u, 1, Find(u, ":", 1) - 1)) ELSE <<>>,
         netloc |-> netloc,
         path   |-> Before(Before(tail, "#"), "?")]

clean_url(u) ==
    LET parsed == urlparse(u)
    IN  IF parsed.netloc # <<>> THEN parsed.netloc ELSE parsed.path

\* the characters raw URLs are made of
UrlChars == {"h", "8", ":", "/", "?"}
Urls == StringsUpTo(UrlChars, MaxLen)

----------------------------------------------------------------------------
(* Findings.  A formatted string (an f-string) is the sequence of its pieces. *)

Finding(type, h, details, status) ==
    [type |-> type, host |-> h, details |-> details, status |-> status]

\* safe_execution: a call that raises is logged and yields None.  A call's
\* outcome is [raised, ret]: raised names the exception ("" when none), ret is
\* the returned value as a sequence of at most one Finding (<<>> is None).
Returned(f) == [raised |-> "", ret |-> <<f>>]
ReturnedNone == [raised |-> "", ret |-> <<>>]
Raised(e) == [raised |-> e, ret |-> <<>>]

\* no exception has left scanner
NoException == [exc |-> "", at |-> ""]
Exception(e, at) == [exc |-> e, at |-> at]

\* safe_execution without the except clause
safe_execution_Reraise(outcome) == outcome

safe_execution(outcome) ==
    IF outcome.raised # "" THEN ReturnedNone ELSE outcome

----------------------------------------------------------------------------
(* check_url *)

NotFoundPatterns == {
    <<"p","a","g","e"," ","n","o","t"," ","f","o","u","n","d">> }

InterestingPatterns == {
    <<"a","d","m","i","n">>,
    <<"u0432","u043e","u0439","u0442","u0438"," ","|"," ","u0430","u0434","u043c",
      "u0438","u043d","u0438","u0441","u0442","u0440","u0430","u0442","u0438","u0432",
      "u043d","u044b","u0439"," ","u0441","u0430","u0439","u0442"," ","d","j","a","n","g","o">>,
    <<"s","w","a","g","g","e","r"," ","u","i">>,
    <<"a","p","i">>,
    <<"o","p","e","n","a","p","i">>,
    <<"d","o","c","u","m","e","n","t","a","t","i","o","n">> }

\* A response of requests.get: exc names the exception it raised ("" when it
\* returned), status is the status code, title_tag says what the body's title
\* element is ("absent": no title element, "no_string": a title element whose
\* .string is None, "string": a title element with text), title is that text,
\* location is the Location header.
Response(status, title_tag, title, location) ==
    [exc |-> "", status |-> status, title_tag |-> title_tag, title |-> title,
     location |-> location]
TransportError(e) ==
    [exc |-> e, status |-> 0, title_tag |-> "absent", title |-> <<>>, location |-> "None"]

\* title = soup.title.string if soup.title else ""; None is [is_none |-> TRUE]
TitleOf(resp) ==
    IF resp.title_tag = "absent" THEN [is_none |-> FALSE, str |-> <<>>]
    ELSE IF resp.title_tag = "no_string" THEN [is_none |-> TRUE, str |-> <<>>]
    ELSE [is_none |-> FALSE, str |-> resp.title]

\* for pattern in patterns: if pattern in title.lower()
MatchesAny(patterns, title) == \E pat \in patterns : Contains(pat, Lower(title))

\* check_url_fetch with the test for a status >= 400 ahead of the test for 404
check_url_fetch_ErrorFirst(u, h, resp) ==
    IF resp.exc # "" THEN
        Returned(Finding("URL Check", h, <<"Error checking ">> \o u \o <<": ", resp.exc>>, "ERROR"))
    ELSE IF resp.status >= 400 THEN
        Returned(Finding("URL Check", h,
            <<"Error accessing ">> \o u \o <<", status code ", ToString(resp.status)>>, "ERROR"))
    ELSE IF resp.status \in {301, 302} THEN
        Returned(Finding("URL Check", h, <<"Redirected to ", resp.location>>, "OPEN"))
    ELSE IF resp.status = 200 THEN
        IF TitleOf(resp).is_none THEN Raised("AttributeError")
        ELSE IF MatchesAny(InterestingPatterns, TitleOf(resp).str) THEN
            Returned(Finding("URL Check", h,
                <<"Interesting page found at ">> \o u \o <<" -> ">> \o TitleOf(resp).str, "OPEN"))
        ELSE
            Returned(Finding("URL Check", h,
                <<"Page available but not of special interest at ">> \o u \o <<" -> ">>
                    \o TitleOf(resp).str, "WARNING"))
    ELSE ReturnedNone


\* check_url_fetch without the except clause: a failed GET propagates
check_url_fetch_NoExcept(u, h, resp) ==
    IF resp.exc # "" THEN Raised(resp.exc)
    ELSE IF resp.status = 404 THEN
        IF TitleOf(resp).is_none THEN Raised("AttributeError")
        ELSE IF MatchesAny(NotFoundPatterns, TitleOf(resp).str) THEN
            Returned(Finding("URL Check", h, <<"Error 404 at ">> \o u, "OPEN"))
        ELSE
            Returned(Finding("URL Check", h, <<"Error 404 at ">> \o u, "ERROR"))
    ELSE IF resp.status \in {301, 302} THEN
        Returned(Finding("URL Check", h, <<"Redirected to ", resp.location>>, "OPEN"))
    ELSE IF resp.status = 200 THEN
        IF TitleOf(resp).is_none THEN Raised("AttributeError")
        ELSE IF MatchesAny(InterestingPatterns, TitleOf(resp).str) THEN
            Returned(Finding("URL Check", h,
                <<"Interesting page found at ">> \o u \o <<" -> ">> \o TitleOf(resp).str, "OPEN"))
        ELSE
            Returned(Finding("URL Check", h,
                <<"Page available but not of special interest at ">> \o u \o <<" -> ">>
                    \o TitleOf(resp).str, "WARNING"))
    ELSE IF resp.status >= 400 THEN
        Returned(Finding("URL Check", h,
            <<"Error accessing ">> \o u \o <<", status code ", ToString(resp.status)>>, "ERROR"))
    ELSE ReturnedNone

\* the body of check_url after the cache lookup, given the response of the GET
check_url_fetch(u, h, resp) ==
    IF resp.exc # "" THEN
        Returned(Finding("URL Check", h, <<"Error checking ">> \o u \o <<": ", resp.exc>>, "ERROR"))
    ELSE IF resp.status = 404 THEN
        IF TitleOf(resp).is_none THEN Raised("AttributeError")
        ELSE IF MatchesAny(NotFoundPatterns, TitleOf(resp).str) THEN
            Returned(Finding("URL Check", h, <<"Error 404 at ">> \o u, "OPEN"))
        ELSE
            Returned(Finding("URL Check", h, <<"Error 404 at ">> \o u, "ERROR"))
    ELSE IF resp.status \in {301, 302} THEN
        Returned(Finding("URL Check", h, <<"Redirected to ", resp.location>>, "OPEN"))
    ELSE IF resp.status = 200 THEN
        IF TitleOf(resp).is_none THEN Raised("AttributeError")
        ELSE IF MatchesAny(InterestingPatterns, TitleOf(resp).str) THEN
            Returned(Finding("URL Check", h,
                <<"Interesting page found at ">> \o u \o <<" -> ">> \o TitleOf(resp).str, "OPEN"))
        ELSE
            Returned(Finding("URL Check", h,
                <<"Page available but not of special interest at ">> \o u \o <<" -> ">>
                    \o TitleOf(resp).str, "WARNING"))
    ELSE IF resp.status >= 400 THEN
        Returned(Finding("URL Check", h,
            <<"Error accessing ">> \o u \o <<", status code ", ToString(resp.status)>>, "ERROR"))
    ELSE ReturnedNone

\* whether check_url(u) issues a GET: only when u is not in the cache
Fetches(u, cch) == u \notin DOMAIN cch

\* check_url as its callers see it (with @safe_execution)
check_url(u, h, cch, resp) ==
    IF ~Fetches(u, cch) THEN safe_execution([raised |-> "", ret |-> cch[u]])
    ELSE safe_execution(check_url_fetch(u, h, resp))

----------------------------------------------------------------------------
(* check_ssl_expiry *)

SecondsPerDay == 86400
ExpiryWarningDays == 30

\* What the TLS connection meets: exc names the exception raised by the
\* connection or the handshake ("" when none), has_not_after says whether the
\* certificate has a notAfter entry, expiry and now are times in seconds.
SslEnv(exc, has_not_after, expiry, now) ==
    [exc |-> exc, has_not_after |-> has_not_after, expiry |-> expiry, now |-> now]

\* (expiry_date - datetime.utcnow()).days: whole days, rounded down
days_remaining(env) == (env.expiry - env.now) \div SecondsPerDay

SslError(h, e) ==
    Returned(Finding("SSL Check", h,
        <<"Error checking SSL certificate for ">> \o h \o <<": ", e>>, "ERROR"))

\* check_ssl_expiry_body with days_remaining <= 30 for WARNING
check_ssl_expiry_body_Inclusive(h, env) ==
    IF env.exc # "" THEN SslError(h, env.exc)
    ELSE IF ~env.has_not_after THEN SslError(h, "KeyError")
    ELSE Returned(Finding("SSL Check", h,
            <<"SSL certificate expires on ", ToString(env.expiry), ", ",
              ToString(days_remaining(env)), " days remaining.">>,
            IF days_remaining(env) <= ExpiryWarningDays THEN "WARNING" ELSE "OPEN"))

check_ssl_expiry_body(h, env) ==
    IF env.exc # "" THEN SslError(h, env.exc)
    ELSE IF ~env.has_not_after THEN SslError(h, "KeyError")
    ELSE Returned(Finding("SSL Check", h,
            <<"SSL certificate expires on ", ToString(env.expiry), ", ",
              ToString(days_remaining(env)), " days remaining.">>,
            IF days_remaining(env) < ExpiryWarningDays THEN "WARNING" ELSE "OPEN"))

check_ssl_expiry(h, env) == safe_execution(check_ssl_expiry_body(h, env))

----------------------------------------------------------------------------
(* check_single_port, check_api_docs' URLs *)

common_ports == <<443, 8080, 3000, 5000, 8000, 8081, 9000, 21, 22, 25, 53,
                  110, 143, 3306, 5432, 27017, 6379, 4002>>

possible_paths == <<
    "/admin", "/administrator", "/admin/login", "/admin/dashboard", "/backend",
    "/cms", "/panel", "/console", "/secure/admin", "/admin-panel",
    "/config", "/config.php", "/settings.php", "/install.php", "/config/settings",
    "/setup", "/installer",
    "/api/auth", "/api/login", "/api/logout", "/oauth/token", "/api/users", "/api/admin",
    "/keys", "/certificates", "/token", "/tokens", "/secrets", "/api/secrets",
    "/db", "/database", "/dump", "/logs", "/log", "/debug.log", "/access.log", "/error.log",
    "/user", "/users", "/user/profile", "/payment", "/checkout", "/cart", "/invoice",
    "/order", "/orders", "/transactions", "/api/docs", "/api/redoc", "/api/asas">>

\* the candidates the model runs over
Ports == SubSeq(common_ports, 1, NumPorts)
Paths == SubSeq(possible_paths, 1, NumPaths)
PortSet == ToSet(Ports)

\* What the connect to a port meets: "connected" (connect_ex returns 0),
\* "refused" (connect_ex returns an error number, a timeout included),
\* "socket_error" (socket.error is raised), "other_error" (another exception).
ConnectOutcomes == {"connected", "refused", "socket_error", "other_error"}

check_single_port(outcome) ==
    IF outcome = "connected" THEN [raised |-> "", ret |-> TRUE]
    ELSE IF outcome = "refused" THEN [raised |-> "", ret |-> FALSE]
    ELSE IF outcome = "socket_error" THEN [raised |-> "", ret |-> FALSE]
    ELSE [raised |-> "UnicodeError", ret |-> FALSE]

url_with_port(h, port, path) == <<"https://">> \o h \o <<":", ToString(port), path>>
url_without_port(h, path) == <<"https://">> \o h \o <<path>>

----------------------------------------------------------------------------
(* The network a scan runs against *)

Variants == {"with_port", "without_port"}

\* responses with a title that is text
TitleTexts == {
    <<>>,
    <<"A","d","m","i","n"," ","L","o","g","i","n">>,
    <<"W","e","l","c","o","m","e">>,
    <<"P","a","g","e"," ","N","o","t"," ","F","o","u","n","d"," ","-"," ","C","u","s","t","o","m">>,
    <<"N","o","t"," ","F","o","u","n","d">>,
    <<"S","w","a","g","g","e","r"," ","U","I">>,
    <<"R","a","p","i","d">>,
    <<"O","p","e","n","A","P","I">>,
    <<"D","o","c","s">>,
    <<"u0412","u043e","u0439","u0442","u0438">>,
    <<"u0412","u043e","u0439","u0442","u0438"," ","|"," ","u0410","u0434","u043c",
      "u0438","u043d","u0438","u0441","u0442","u0440","u0430","u0442","u0438","u0432",
      "u043d","u044b","u0439"," ","u0441","u0430","u0439","u0442"," ","D","j","a","n","g","o">> }

StatusCodes == {100, 200, 204, 301, 302, 304, 399, 400, 403, 404, 500}

AllResponses ==
    {Response(s, "string", t, "/login") : s \in StatusCodes, t \in TitleTexts}
    \cup {Response(s, tag, <<>>, "None") : s \in StatusCodes, tag \in {"absent", "no_string"}}
    \cup {TransportError(e) : e \in {"ConnectionError", "ReadTimeout", "SSLError"}}

\* the responses a whole scan is run against
ScanResponses == {
    Response(200, "string", <<"A","d","m","i","n"," ","L","o","g","i","n">>, "None"),
    Response(204, "absent", <<>>, "None"),
    Response(200, "no_string", <<>>, "None"),
    TransportError("ConnectionError") }

\* a host answers every URL with an explicit port in one way and every URL
\* without a port in one way
Servers == [Variants -> ScanResponses]

ScanSslEnvs == {
    SslEnv("", TRUE, 200 * SecondsPerDay, 0),
    SslEnv("SSLError", FALSE, 0, 0) }

SslEnvs ==
    {SslEnv("", TRUE, now + d * SecondsPerDay + r, now) :
        d \in (-2)..MaxDays, r \in {0, 1, SecondsPerDay - 1}, now \in {0, 43200}}
    \cup {SslEnv(e, FALSE, 0, 0) : e \in {"", "SSLError", "timeout"}}

ScanInputs == { <<"h">>, <<"h",":","/","/","h",":","8","/">> }

\* max_workers of the executor in check_ports_multithreaded
PortWorkers == 20

----------------------------------------------------------------------------
(* perform_scan and scanner, up to the two submitted futures *)

scanVars == <<url, cleaned_url, pc, host, results, raised>>
portVars == <<connect, max_workers, port_pc, fut, fut_result, open_ports, attempts>>
sslVars  == <<ssl_env, ssl_pc, ssl_result>>
pathVars == <<server, cache, http_log, port_i, path_i, port_results>>

\* perform_scan: cleaned_url = clean_url(url); scanner(cleaned_url) is handed
\* to the executor
PerformScan ==
    /\ pc = "perform_scan"
    /\ cleaned_url' = clean_url(url)
    /\ pc' = "scanner"
    /\ UNCHANGED <<url, host, results, raised, portVars, sslVars, pathVars, document, scans>>

\* scanner: host = clean_url(host); results = []
ScannerClean ==
    /\ pc = "scanner"
    /\ host' = clean_url(cleaned_url)
    /\ results' = <<>>
    /\ pc' = "submit"
    /\ UNCHANGED <<url, cleaned_url, raised, portVars, sslVars, pathVars, document, scans>>

\* scanner: the two executor.submit calls
ScannerSubmit ==
    /\ pc = "submit"
    /\ port_pc' = "start"
    /\ ssl_pc' = "start"
    /\ pc' = "join"
    /\ UNCHANGED <<url, cleaned_url, host, results, raised, connect, max_workers, attempts, fut,
                   fut_result, open_ports, ssl_env, ssl_result, pathVars, document, scans>>

----------------------------------------------------------------------------
(* check_ports_multithreaded *)

Running == {p \in PortSet : fut[p] = "running"}

\* the index of port p in common_ports
PortIndex(p) == CHOOSE i \in 1..Len(Ports) : Ports[i] = p

\* open_ports = []; every candidate port is submitted to the executor
PortsSubmit ==
    /\ port_pc = "start"
    /\ open_ports' = <<>>
    /\ fut' = [p \in PortSet |-> "pending"]
    /\ port_pc' = "as_completed"
    /\ UNCHANGED <<scanVars, connect, max_workers, attempts, fut_result, sslVars, pathVars, document, scans>>

\* a worker of the executor takes the oldest queued probe
StartProbe(p) ==
    /\ port_pc = "as_completed"
    /\ fut[p] = "pending"
    /\ \A q \in PortSet : PortIndex(q) < PortIndex(p) => fut[q] # "pending"
    /\ Cardinality(Running) < max_workers
    /\ fut' = [fut EXCEPT ![p] = "running"]
    /\ UNCHANGED <<scanVars, connect, max_workers, attempts, port_pc, fut_result, open_ports,
                   sslVars, pathVars, document, scans>>



\* a probe worker that appends its port to the shared open_ports itself
FinishProbe_Appends(p) ==
    /\ fut[p] = "running"
    /\ fut' = [fut EXCEPT ![p] = "finished"]
    /\ fut_result' = [fut_result EXCEPT ![p] = [raised |-> "", ret |-> FALSE]]
    /\ attempts' = [attempts EXCEPT ![p] = attempts[p] + 1]
    /\ open_ports' = IF check_single_port(connect[p]).ret
                     THEN Append(open_ports, p) ELSE open_ports
    /\ UNCHANGED <<scanVars, connect, max_workers, port_pc,
                   sslVars, pathVars, document, scans>>

\* a probe that connects a second time when its first connect did not succeed
FinishProbe_Retry(p) ==
    /\ fut[p] = "running"
    /\ attempts' = [attempts EXCEPT ![p] = attempts[p] + 1]
    /\ IF connect[p] # "connected" /\ attempts[p] = 0
       THEN fut' = fut /\ fut_result' = fut_result
       ELSE /\ fut' = [fut EXCEPT ![p] = "finished"]
            /\ fut_result' = [fut_result EXCEPT ![p] = check_single_port(connect[p])]
    /\ UNCHANGED <<scanVars, connect, max_workers, port_pc, open_ports,
                   sslVars, pathVars, document, scans>>

\* check_single_port(host, p) ends; its outcome is stored in the future
FinishProbe(p) ==
    /\ fut[p] = "running"
    /\ fut' = [fut EXCEPT ![p] = "finished"]
    /\ fut_result' = [fut_result EXCEPT ![p] = check_single_port(connect[p])]
    /\ attempts' = [attempts EXCEPT ![p] = attempts[p] + 1]
    /\ UNCHANGED <<scanVars, connect, max_workers, port_pc, open_ports,
                   sslVars, pathVars, document, scans>>

\* CollectProbe without the test of the result
CollectProbe_NoTest(p) ==
    /\ port_pc = "as_completed"
    /\ fut[p] = "finished"
    /\ fut' = [fut EXCEPT ![p] = "collected"]
    /\ open_ports' = IF fut_result[p].raised = ""
                     THEN Append(open_ports, p) ELSE open_ports
    /\ UNCHANGED <<scanVars, connect, max_workers, attempts, port_pc, fut_result,
                   sslVars, pathVars, document, scans>>


\* an as_completed loop that never gets past a future holding an exception
CollectProbe_Stuck(p) ==
    /\ port_pc = "as_completed"
    /\ fut[p] = "finished"
    /\ fut_result[p].raised = ""
    /\ fut' = [fut EXCEPT ![p] = "collected"]
    /\ open_ports' = IF fut_result[p].ret THEN Append(open_ports, p) ELSE open_ports
    /\ UNCHANGED <<scanVars, connect, max_workers, attempts, port_pc, fut_result,
                   sslVars, pathVars, document, scans>>

\* one iteration of the as_completed loop: a finished future is yielded, and
\* its port is appended when the result is true; an exception is passed over
CollectProbe(p) ==
    /\ port_pc = "as_completed"
    /\ fut[p] = "finished"
    /\ fut' = [fut EXCEPT ![p] = "collected"]
    /\ open_ports' = IF fut_result[p].raised = "" /\ fut_result[p].ret
                     THEN Append(open_ports, p) ELSE open_ports
    /\ UNCHANGED <<scanVars, connect, max_workers, attempts, port_pc, fut_result,
                   sslVars, pathVars, document, scans>>

\* return open_ports
PortsReturn ==
    /\ port_pc = "as_completed"
    /\ \A p \in PortSet : fut[p] = "collected"
    /\ port_pc' = "done"
    /\ UNCHANGED <<scanVars, connect, max_workers, attempts, fut, fut_result, open_ports,
                   sslVars, pathVars, document, scans>>

----------------------------------------------------------------------------
(* the worker that runs check_ssl_expiry(host) *)

CheckSslExpiry ==
    /\ ssl_pc = "start"
    /\ ssl_result' = check_ssl_expiry(host, ssl_env)
    /\ ssl_pc' = "done"
    /\ UNCHANGED <<scanVars, portVars, ssl_env, pathVars, document, scans>>

----------------------------------------------------------------------------
(* scanner, after the two futures *)


\* scanner taking only port_future.result() before it goes on
ScannerJoin_NoSslWait ==
    /\ pc = "join"
    /\ port_pc = "done"
    /\ IF ssl_result.raised # ""
       THEN raised' = Exception(ssl_result.raised, "ssl_future.result") /\ pc' = "raised"
       ELSE raised' = raised /\ pc' = "if_open_ports"
    /\ UNCHANGED <<url, cleaned_url, host, results, portVars, sslVars, pathVars, document, scans>>

\* open_ports = port_future.result(); ssl_result = ssl_future.result(): the
\* thread waits for both, and an exception held by a future is raised here
ScannerJoin ==
    /\ pc = "join"
    /\ port_pc = "done"
    /\ ssl_pc = "done"
    /\ IF ssl_result.raised # ""
       THEN raised' = Exception(ssl_result.raised, "ssl_future.result") /\ pc' = "raised"
       ELSE raised' = raised /\ pc' = "if_open_ports"
    /\ UNCHANGED <<url, cleaned_url, host, results, portVars, sslVars, pathVars, document, scans>>

NoOpenPorts(h) == Finding("Port Check", h, <<"No open ports found">>, "ERROR")

\* ScannerBranch without the append of the else branch
ScannerBranch_NoFinding ==
    /\ pc = "if_open_ports"
    /\ IF open_ports # <<>>
       THEN /\ pc' = "check_api_docs"
            /\ port_i' = 1
            /\ path_i' = 1
            /\ port_results' = <<>>
            /\ results' = results
       ELSE /\ pc' = "append_ssl"
            /\ results' = results
            /\ UNCHANGED <<port_i, path_i, port_results>>
    /\ UNCHANGED <<url, cleaned_url, host, raised, portVars, sslVars, server, cache,
                   http_log, document, scans>>

\* if open_ports: (enter the loop over the ports) else: results.append(...)
ScannerBranch ==
    /\ pc = "if_open_ports"
    /\ IF open_ports # <<>>
       THEN /\ pc' = "check_api_docs"
            /\ port_i' = 1
            /\ path_i' = 1
            /\ port_results' = <<>>
            /\ results' = results
       ELSE /\ pc' = "append_ssl"
            /\ results' = Append(results, NoOpenPorts(host))
            /\ UNCHANGED <<port_i, path_i, port_results>>
    /\ UNCHANGED <<url, cleaned_url, host, raised, portVars, sslVars, server, cache,
                   http_log, document, scans>>

\* the GET requests check_url(u) adds to the network's log
Requests(u, cch, resp) ==
    IF Fetches(u, cch) THEN <<[url |-> u, resp |-> resp]>> ELSE <<>>

\* AppendBoth with the two appends in the other order
AppendBoth_Swapped(rs, result_with_port, result_without_port) ==
    rs \o result_without_port \o result_with_port

\* if result_with_port: results.append(result_with_port)
\* if result_without_port: results.append(result_without_port)
AppendBoth(rs, result_with_port, result_without_port) ==
    rs \o result_with_port \o result_without_port

\* check_api_docs: one iteration of the loop over possible_paths
CheckApiDocsStep ==
    /\ pc = "check_api_docs"
    /\ path_i <= Len(Paths)
    /\ LET port == open_ports[port_i]
           path == Paths[path_i]
           uw   == url_with_port(host, port, path)
           uo   == url_without_port(host, path)
           ow   == check_url(uw, host, cache, server["with_port"])
           oo   == check_url(uo, host, cache, server["without_port"])
       IN  IF ow.raised # "" THEN
               /\ http_log' = http_log \o Requests(uw, cache, server["with_port"])
               /\ raised' = Exception(ow.raised, "check_url")
               /\ pc' = "raised"
               /\ UNCHANGED <<path_i, port_results>>
           ELSE IF oo.raised # "" THEN
               /\ http_log' = http_log \o Requests(uw, cache, server["with_port"])
                                       \o Requests(uo, cache, server["without_port"])
               /\ raised' = Exception(oo.raised, "check_url")
               /\ pc' = "raised"
               /\ UNCHANGED <<path_i, port_results>>
           ELSE
               /\ http_log' = http_log \o Requests(uw, cache, server["with_port"])
                                       \o Requests(uo, cache, server["without_port"])
               /\ port_results' = AppendBoth(port_results, ow.ret, oo.ret)
               /\ path_i' = path_i + 1
               /\ UNCHANGED <<raised, pc>>
    /\ UNCHANGED <<url, cleaned_url, host, results, portVars, sslVars, server, cache,
                   port_i, document, scans>>



\* check_api_docs keeping one results list over all its calls
CheckApiDocsReturn_NoReset ==
    /\ pc = "check_api_docs"
    /\ path_i > Len(Paths)
    /\ results' = results \o port_results
    /\ port_results' = port_results
    /\ IF port_i < Len(open_ports)
       THEN port_i' = port_i + 1 /\ path_i' = 1 /\ pc' = pc
       ELSE port_i' = port_i /\ path_i' = path_i /\ pc' = "append_ssl"
    /\ UNCHANGED <<url, cleaned_url, host, raised, portVars, sslVars, server, cache,
                   http_log, document, scans>>

\* scanner assigning the Findings of a port where it extends results
CheckApiDocsReturn_Replace ==
    /\ pc = "check_api_docs"
    /\ path_i > Len(Paths)
    /\ results' = port_results
    /\ port_results' = <<>>
    /\ IF port_i < Len(open_ports)
       THEN port_i' = port_i + 1 /\ path_i' = 1 /\ pc' = pc
       ELSE port_i' = port_i /\ path_i' = path_i /\ pc' = "append_ssl"
    /\ UNCHANGED <<url, cleaned_url, host, raised, portVars, sslVars, server, cache,
                   http_log, document, scans>>

\* check_api_docs returns; results.extend(port_results); the next port
CheckApiDocsReturn ==
    /\ pc = "check_api_docs"
    /\ path_i > Len(Paths)
    /\ results' = results \o port_results
    /\ port_results' = <<>>
    /\ IF port_i < Len(open_ports)
       THEN port_i' = port_i + 1 /\ path_i' = 1 /\ pc' = pc
       ELSE port_i' = port_i /\ path_i' = path_i /\ pc' = "append_ssl"
    /\ UNCHANGED <<url, cleaned_url, host, raised, portVars, sslVars, server, cache,
                   http_log, document, scans>>

\* if ssl_result: results.append(ssl_result)
AppendSsl ==
    /\ pc = "append_ssl"
    /\ results' = results \o ssl_result.ret
    /\ pc' = "save"
    /\ UNCHANGED <<url, cleaned_url, host, raised, portVars, sslVars, pathVars, document, scans>>

----------------------------------------------------------------------------
(* save_to_excel *)

Header == << <<"Type">>, <<"Host">>, <<"Details">>, <<"Status">> >>

\* Row with the first two columns exchanged
Row_HostFirst(result) == << result.host, <<result.type>>, result.details, <<result.status>> >>

\* row = [result['type'], result['host'], result['details'], result['status']];
\* a cell is the sequence of the pieces of its text
Row(result) == << <<result.type>>, result.host, result.details, <<result.status>> >>

\* ws.append(header); for result in results: ws.append(row)
Sheet(rs) == <<Header>> \o [i \in 1..Len(rs) |-> Row(rs[i])]

\* output_filename = f"{host}_scan_results.xlsx"
DefaultFilename(h) == h \o <<"_scan_results.xlsx">>

\* os.path.join('document', filename)
FullPath(filename) == <<"document", "/">> \o filename

\* wb.save(full_path): the file of that name now holds the sheet
Saved(doc, filename, sheet) ==
    [f \in DOMAIN doc \cup {filename} |-> IF f = filename THEN sheet ELSE doc[f]]

\* scanner: the default file name, save_to_excel, return results, saved_path;
\* a failure of the file system is raised to the caller
SaveToExcel ==
    /\ pc = "save"
    /\ \E ok \in BOOLEAN :
          IF ok
          THEN /\ document' = Saved(document, DefaultFilename(host), Sheet(results))
               /\ pc' = "done"
               /\ raised' = raised
          ELSE /\ document' = document
               /\ pc' = "raised"
               /\ raised' = Exception("OSError", "save_to_excel")
    /\ UNCHANGED <<url, cleaned_url, host, results, portVars, sslVars, pathVars, scans>>

----------------------------------------------------------------------------
(* one call of check_url, on its own *)

CheckUrlOnce ==
    /\ pc = "check_url"
    /\ LET u == url_with_port(host, Ports[1], Paths[1])
           o == check_url(u, host, cache, server["with_port"])
       IN  /\ http_log' = http_log \o Requests(u, cache, server["with_port"])
           /\ port_results' = o.ret
           /\ raised' = IF o.raised # "" THEN Exception(o.raised, "check_url") ELSE raised
    /\ pc' = "checked"
    /\ UNCHANGED <<url, cleaned_url, host, results, portVars, sslVars, server, cache,
                   port_i, path_i, document, scans>>

----------------------------------------------------------------------------
(* The web layer: perform_scan runs scanner in a pool of three workers *)

\* executor = ThreadPoolExecutor(max_workers=3)
WebWorkers == 3

ScanIds == 1..NumScans

\* what check_ports_multithreaded may return to a scan: the ports that were
\* reachable while it ran, in the order their probes completed
OpenPortLists == {<<>>, <<Ports[1]>>, <<Ports[2], Ports[1]>>}

\* check_api_docs(host, port): the non-None results of both URLs of the
\* first i paths
RECURSIVE check_api_docs_upto(_, _, _, _, _)
check_api_docs_upto(h, port, cch, srv, i) ==
    IF i = 0 THEN <<>>
    ELSE AppendBoth(check_api_docs_upto(h, port, cch, srv, i - 1),
            check_url(url_with_port(h, port, Paths[i]), h, cch, srv["with_port"]).ret,
            check_url(url_without_port(h, Paths[i]), h, cch, srv["without_port"]).ret)

check_api_docs(h, port, cch, srv) == check_api_docs_upto(h, port, cch, srv, Len(Paths))

\* a request that has not arrived
NoScan ==
    [pc |-> "idle", url |-> <<>>, cleaned_url |-> <<>>, host |-> <<>>,
     open_ports |-> <<>>, port_i |-> 0, results |-> <<>>, saved_path |-> <<>>]

\* the scans that occupy a worker of the pool
WebRunning == {r \in ScanIds : scans[r].pc \in {"ports", "append_ssl", "saved"}}

\* the single scan's variables, which the web layer's steps leave alone
oneScanVars == <<scanVars, portVars, sslVars, pathVars>>

\* perform_scan: cleaned_url = clean_url(url); loop.run_in_executor(executor, scanner, cleaned_url)
WebRequest(r, u) ==
    /\ scans[r].pc = "idle"
    /\ scans' = [scans EXCEPT ![r].pc = "queued", ![r].url = u,
                              ![r].cleaned_url = clean_url(u)]
    /\ UNCHANGED <<oneScanVars, document>>

\* a free worker starts scanner(cleaned_url): host = clean_url(host),
\* results = [], and the two futures are awaited
WebStart(r) ==
    /\ scans[r].pc = "queued"
    /\ Cardinality(WebRunning) < WebWorkers
    /\ \E ops \in OpenPortLists :
          scans' = [scans EXCEPT ![r].pc = "ports",
                                 ![r].host = clean_url(scans[r].cleaned_url),
                                 ![r].open_ports = ops,
                                 ![r].port_i = 1,
                                 ![r].results = <<>>]
    /\ UNCHANGED <<oneScanVars, document>>

\* WebScanPorts with the Findings' host taken from one variable shared by
\* all scans
WebScanPorts_SharedHost(r) ==
    /\ scans[r].pc = "ports"
    /\ LET s == scans[r] IN
       IF s.open_ports = <<>>
       THEN scans' = [scans EXCEPT ![r].pc = "append_ssl",
                                   ![r].results = Append(s.results, NoOpenPorts(host))]
       ELSE scans' = [scans EXCEPT
                ![r].results = s.results
                    \o check_api_docs(host, s.open_ports[s.port_i], cache, server),
                ![r].port_i = s.port_i + 1,
                ![r].pc = IF s.port_i = Len(s.open_ports) THEN "append_ssl" ELSE "ports"]
    /\ UNCHANGED <<oneScanVars, document>>

\* scanner: the branch on open_ports; one pass of the loop over open_ports
WebScanPorts(r) ==
    /\ scans[r].pc = "ports"
    /\ LET s == scans[r] IN
       IF s.open_ports = <<>>
       THEN scans' = [scans EXCEPT ![r].pc = "append_ssl",
                                   ![r].results = Append(s.results, NoOpenPorts(s.host))]
       ELSE scans' = [scans EXCEPT
                ![r].results = s.results
                    \o check_api_docs(s.host, s.open_ports[s.port_i], cache, server),
                ![r].port_i = s.port_i + 1,
                ![r].pc = IF s.port_i = Len(s.open_ports) THEN "append_ssl" ELSE "ports"]
    /\ UNCHANGED <<oneScanVars, document>>

\* scanner: the append of ssl_result, the default file name and save_to_excel;
\* a failure of the file system is raised
WebSave(r) ==
    /\ scans[r].pc = "append_ssl"
    /\ LET s  == scans[r]
           rs == s.results \o check_ssl_expiry(s.host, ssl_env).ret
       IN  \E ok \in BOOLEAN :
              IF ok
              THEN /\ document' = Saved(document, DefaultFilename(s.host), Sheet(rs))
                   /\ scans' = [scans EXCEPT ![r].pc = "saved", ![r].results = rs,
                                  ![r].saved_path = FullPath(DefaultFilename(s.host))]
              ELSE /\ document' = document
                   /\ scans' = [scans EXCEPT ![r].pc = "failed", ![r].results = rs]
    /\ UNCHANGED oneScanVars

\* scanner: return results, saved_path; perform_scan renders them
WebReturn(r) ==
    /\ scans[r].pc = "saved"
    /\ scans' = [scans EXCEPT ![r].pc = "returned"]
    /\ UNCHANGED <<oneScanVars, document>>

----------------------------------------------------------------------------
(* Initial states and specifications *)

\* no request is being served by the web layer
NoScans == <<>>

\* the parts of the state before anything has run
IdlePorts ==
    /\ max_workers = PortWorkers
    /\ port_pc = "idle"
    /\ fut = [p \in PortSet |-> "unsubmitted"]
    /\ fut_result = [p \in PortSet |-> [raised |-> "", ret |-> FALSE]]
    /\ open_ports = <<>>
    /\ attempts = [p \in PortSet |-> 0]

IdleSsl ==
    /\ ssl_pc = "idle"
    /\ ssl_result = ReturnedNone

IdlePaths ==
    /\ cache = <<>>
    /\ http_log = <<>>
    /\ port_i = 0
    /\ path_i = 0
    /\ port_results = <<>>

IdleScan ==
    /\ url = <<>>
    /\ cleaned_url = <<>>
    /\ host = <<"h">>
    /\ raised = NoException

\* a network that is not looked at
QuietPorts == connect = [p \in PortSet |-> "refused"]
QuietSsl == ssl_env = SslEnv("SSLError", FALSE, 0, 0)
QuietServer == server = [v \in Variants |-> Response(204, "absent", <<>>, "None")]

\* a request to /scan
Init ==
    /\ url \in ScanInputs
    /\ cleaned_url = <<>>
    /\ pc = "perform_scan"
    /\ host = <<>>
    /\ results = <<>>
    /\ raised = NoException
    /\ connect \in [PortSet -> ConnectOutcomes]
    /\ IdlePorts
    /\ ssl_env \in ScanSslEnvs
    /\ IdleSsl
    /\ server \in Servers
    /\ IdlePaths
    /\ document = <<>>
    /\ scans = NoScans

Next ==
    \/ PerformScan
    \/ ScannerClean
    \/ ScannerSubmit
    \/ PortsSubmit
    \/ \E p \in PortSet : StartProbe(p)
    \/ \E p \in PortSet : FinishProbe(p)
    \/ \E p \in PortSet : CollectProbe(p)
    \/ PortsReturn
    \/ CheckSslExpiry
    \/ ScannerJoin
    \/ ScannerBranch
    \/ CheckApiDocsStep
    \/ CheckApiDocsReturn
    \/ AppendSsl
    \/ SaveToExcel

Spec == Init /\ [][Next]_vars

\* a request to /scan for a host that answers every address in the same way
InitTerminate ==
    /\ Init
    /\ url = <<"h">>
    /\ \E r \in ScanResponses : server = [v \in Variants |-> r]

\* one scan whose threads keep being scheduled and whose network calls each
\* return or time out: as long as a step can be taken, one is taken
FairSpec == InitTerminate /\ [][Next]_vars /\ WF_vars(Next)

\* clean_url on every raw URL: perform_scan, then scanner's first statement
InitNormalize ==
    /\ url \in Urls
    /\ cleaned_url = <<>>
    /\ pc = "perform_scan"
    /\ host = <<>>
    /\ results = <<>>
    /\ raised = NoException
    /\ QuietPorts /\ IdlePorts /\ QuietSsl /\ IdleSsl /\ QuietServer /\ IdlePaths
    /\ document = <<>>
    /\ scans = NoScans

NextNormalize == PerformScan \/ ScannerClean

SpecNormalize == InitNormalize /\ [][NextNormalize]_vars

\* check_url on every response
InitClassify ==
    /\ IdleScan
    /\ pc = "check_url"
    /\ results = <<>>
    /\ QuietPorts /\ IdlePorts /\ QuietSsl /\ IdleSsl
    /\ server \in {[v \in Variants |-> r] : r \in AllResponses}
    /\ IdlePaths
    /\ document = <<>>
    /\ scans = NoScans

NextClassify == CheckUrlOnce

SpecClassify == InitClassify /\ [][NextClassify]_vars

\* check_ssl_expiry on every certificate and failure
InitSsl ==
    /\ IdleScan
    /\ pc = "join"
    /\ results = <<>>
    /\ QuietPorts /\ IdlePorts
    /\ ssl_env \in SslEnvs
    /\ ssl_pc = "start"
    /\ ssl_result = ReturnedNone
    /\ QuietServer /\ IdlePaths
    /\ document = <<>>
    /\ scans = NoScans

NextSsl == CheckSslExpiry

SpecSsl == InitSsl /\ [][NextSsl]_vars

\* check_ports_multithreaded with a worker cap of 1 and with the code's cap
InitProbe ==
    /\ IdleScan
    /\ pc = "join"
    /\ results = <<>>
    /\ connect \in [PortSet -> ConnectOutcomes]
    /\ max_workers \in {1, PortWorkers}
    /\ port_pc = "start"
    /\ fut = [p \in PortSet |-> "unsubmitted"]
    /\ fut_result = [p \in PortSet |-> [raised |-> "", ret |-> FALSE]]
    /\ open_ports = <<>>
    /\ attempts = [p \in PortSet |-> 0]
    /\ QuietSsl /\ IdleSsl /\ QuietServer /\ IdlePaths
    /\ document = <<>>
    /\ scans = NoScans

NextProbe ==
    \/ PortsSubmit
    \/ \E p \in PortSet : StartProbe(p)
    \/ \E p \in PortSet : FinishProbe(p)
    \/ \E p \in PortSet : CollectProbe(p)
    \/ PortsReturn

SpecProbe == InitProbe /\ [][NextProbe]_vars

\* the Findings save_to_excel is given on its own
SampleFindings == {
    NoOpenPorts(<<"h">>),
    Finding("URL Check", <<"h">>, <<"Redirected to ", "/login">>, "OPEN"),
    Finding("URL Check", <<"h">>,
            <<"Page available but not of special interest at ", "https://", "h", "/admin",
              " -> ", "D", "o", "c", "s">>, "WARNING"),
    Finding("SSL Check", <<"h">>,
            <<"Error checking SSL certificate for ", "h", ": ", "SSLError">>, "ERROR") }

\* save_to_excel on every Finding list, into an empty directory or over a file
InitSave ==
    /\ IdleScan
    /\ pc = "save"
    /\ results \in UNION {[1..n -> SampleFindings] : n \in 0..MaxRows}
    /\ QuietPorts /\ IdlePorts /\ QuietSsl /\ IdleSsl /\ QuietServer /\ IdlePaths
    /\ document \in {<<>>, Saved(<<>>, DefaultFilename(<<"h">>), Sheet(<<NoOpenPorts(<<"h">>)>>))}
    /\ scans = NoScans

NextSave == SaveToExcel

SpecSave == InitSave /\ [][NextSave]_vars

\* requests to /scan served by the pool of the web layer, against a host
\* that shows an admin page on the addresses with a port and refuses the
\* others
InitWeb ==
    /\ IdleScan
    /\ pc = "web"
    /\ results = <<>>
    /\ QuietPorts /\ IdlePorts
    /\ ssl_env = SslEnv("", TRUE, 200 * SecondsPerDay, 0)
    /\ IdleSsl
    /\ server = [v \in Variants |->
                    IF v = "with_port"
                    THEN Response(200, "string", <<"A","d","m","i","n"," ","L","o","g","i","n">>, "None")
                    ELSE TransportError("ConnectionError")]
    /\ IdlePaths
    /\ document = <<>>
    /\ scans = [r \in ScanIds |-> NoScan]

NextWeb ==
    \/ \E r \in ScanIds, u \in ScanInputs : WebRequest(r, u)
    \/ \E r \in ScanIds : WebStart(r)
    \/ \E r \in ScanIds : WebScanPorts(r)
    \/ \E r \in ScanIds : WebSave(r)
    \/ \E r \in ScanIds : WebReturn(r)

SpecWeb == InitWeb /\ [][NextWeb]_vars

----------------------------------------------------------------------------
(* Claims *)

\* the Finding list is the one handed to save_to_excel and returned
Reported == pc \in {"save", "done"}

\* C1 as stated: when the Port Prober finds no reachable port, the report
\* holds exactly one Finding, {Port Check, host, "No open ports found", ERROR},
\* and no GET was issued.
C1_OnlyFinding ==
    (Reported /\ open_ports = <<>>) =>
        /\ results = << [type |-> "Port Check", host |-> host,
                         details |-> <<"No open ports found">>, status |-> "ERROR"] >>
        /\ http_log = <<>>

\* C1 as amended: when the Port Prober finds no reachable port, the report
\* holds exactly two Findings: {Port Check, host, "No open ports found",
\* ERROR} and, after it, the SSL Check Finding of the Certificate Inspector;
\* it holds no URL Check Finding and no GET was issued.
C1_PortCheckThenSsl ==
    /\ (port_pc = "done" /\ open_ports = <<>>) => http_log = <<>>
    /\ (Reported /\ open_ports = <<>>) =>
        /\ Len(results) = 2
        /\ results[1] = [type |-> "Port Check", host |-> host,
                         details |-> <<"No open ports found">>, status |-> "ERROR"]
        /\ results[2].type = "SSL Check"
        /\ results[2].host = host

C1_Witness ==
    /\ pc = "done"
    /\ open_ports = <<>>
    /\ Len(results) = 2
    /\ \E p \in PortSet : connect[p] = "refused"

\* the title text the classification rules are about: "" when the body has
\* no title element
C2_Title(resp) == IF resp.title_tag = "string" THEN resp.title ELSE <<>>

C2_Sensitive(t) ==
    \E sig \in { <<"a","d","m","i","n">>, <<"s","w","a","g","g","e","r"," ","u","i">>,
                 <<"a","p","i">>, <<"o","p","e","n","a","p","i">>,
                 <<"d","o","c","u","m","e","n","t","a","t","i","o","n">>,
                 Lower(<<"u0412","u043e","u0439","u0442","u0438"," ","|"," ","u0410","u0434",
                   "u043c","u0438","u043d","u0438","u0441","u0442","u0440","u0430","u0442",
                   "u0438","u0432","u043d","u044b","u0439"," ","u0441","u0430","u0439","u0442",
                   " ","D","J","A","N","G","O">>) } :
        Contains(sig, Lower(t))

\* the status the rules give, "None" for no Finding
C2_Rule(s, t) ==
    CASE s = 404 /\ Contains(<<"p","a","g","e"," ","n","o","t"," ","f","o","u","n","d">>, Lower(t))
                                        -> "OPEN"
      [] s = 404 /\ ~Contains(<<"p","a","g","e"," ","n","o","t"," ","f","o","u","n","d">>, Lower(t))
                                        -> "ERROR"
      [] s \in {301, 302}               -> "OPEN"
      [] s = 200 /\ C2_Sensitive(t)     -> "OPEN"
      [] s = 200 /\ ~C2_Sensitive(t)    -> "WARNING"
      [] s >= 400 /\ s # 404            -> "ERROR"
      [] OTHER                          -> "None"

\* C2: for a response with status s and a title that is a string, check_url
\* returns: s = 404 -> OPEN if the lower-cased title contains "page not found",
\* else ERROR; s in {301, 302} -> OPEN with the Location in the detail;
\* s = 200 -> OPEN if the lower-cased title contains a sensitive-page
\* signature, else WARNING; another s >= 400 -> ERROR; any other s -> None.
C2_StatusTable ==
    LET resp == server["with_port"]
    IN  (pc = "checked" /\ resp.exc = "" /\ resp.title_tag # "no_string") =>
            /\ raised = NoException
            /\ IF C2_Rule(resp.status, C2_Title(resp)) = "None"
               THEN port_results = <<>>
               ELSE /\ Len(port_results) = 1
                    /\ port_results[1].type = "URL Check"
                    /\ port_results[1].host = host
                    /\ port_results[1].status = C2_Rule(resp.status, C2_Title(resp))
                    /\ resp.status \in {301, 302} =>
                          resp.location \in ToSet(port_results[1].details)
            \* the examples the specification names
            /\ (resp.status = 200 /\ resp.title = <<"A","d","m","i","n"," ","L","o","g","i","n">>)
                  => port_results[1].status = "OPEN"
            /\ (resp.status = 200 /\ resp.title = <<"W","e","l","c","o","m","e">>)
                  => port_results[1].status = "WARNING"
            /\ (resp.status = 404 /\ resp.title = <<"N","o","t"," ","F","o","u","n","d">>)
                  => port_results[1].status = "ERROR"
            /\ resp.status = 500 => port_results[1].status = "ERROR"

C2_Witness ==
    /\ pc = "checked"
    /\ server["with_port"].status = 404
    /\ server["with_port"].title_tag = "string"
    /\ Len(port_results) = 1
    /\ port_results[1].status = "OPEN"

\* C3: within one scan at most one GET is issued per distinct URL.
C3_OneGetPerUrl ==
    \A i, j \in 1..Len(http_log) : http_log[i].url = http_log[j].url => i = j

\* C4: a response without a usable title (no title element, or a title
\* element whose text is no string) with status 404 yields an ERROR Finding,
\* and with status 200 a WARNING Finding.
C4_NoTitleIsEmptyTitle ==
    LET resp == server["with_port"]
    IN  (pc = "checked" /\ resp.exc = "" /\ resp.title_tag \in {"absent", "no_string"}) =>
            /\ resp.status = 404 =>
                  Len(port_results) = 1 /\ port_results[1].status = "ERROR"
            /\ resp.status = 200 =>
                  Len(port_results) = 1 /\ port_results[1].status = "WARNING"

\* whole days from now to the expiry: the d with d days <= expiry - now < d + 1 days
C5_Days(env) ==
    CHOOSE d \in (-3)..(MaxDays + 1) :
        /\ d * 86400 <= env.expiry - env.now
        /\ env.expiry - env.now < (d + 1) * 86400

\* C5: check_ssl_expiry returns a Finding with status WARNING exactly when
\* days_remaining < 30 and OPEN exactly when days_remaining >= 30; an
\* exception of the connection, the handshake or the parsing of the
\* certificate yields a Finding with status ERROR; it never returns None and
\* never raises.
C5_ExpiryStatus ==
    ssl_pc = "done" =>
        /\ ssl_result.raised = ""
        /\ Len(ssl_result.ret) = 1
        /\ ssl_result.ret[1].type = "SSL Check"
        /\ IF ssl_env.exc = "" /\ ssl_env.has_not_after
           THEN /\ ssl_result.ret[1].status = "WARNING" <=> C5_Days(ssl_env) < 30
                /\ ssl_result.ret[1].status = "OPEN" <=> C5_Days(ssl_env) >= 30
           ELSE ssl_result.ret[1].status = "ERROR"

C5_Witness ==
    /\ ssl_pc = "done"
    /\ ssl_env.exc = ""
    /\ ssl_env.has_not_after
    /\ C5_Days(ssl_env) = 30
    /\ ssl_result.ret[1].status = "OPEN"

C7_Url(k) ==
    LET port == open_ports[((k - 1) \div (2 * Len(Paths))) + 1]
        path == Paths[(((k - 1) \div 2) % Len(Paths)) + 1]
    IN  IF (k - 1) % 2 = 0
        THEN <<"https://">> \o host \o <<":", ToString(port), path>>
        ELSE <<"https://">> \o host \o <<path>>

\* the Findings of the first k requests of the log, without the None results
RECURSIVE C7_Findings(_)
C7_Findings(k) ==
    IF k = 0 THEN <<>>
    ELSE C7_Findings(k - 1)
            \o safe_execution(check_url_fetch(http_log[k].url, host, http_log[k].resp)).ret

C7_Final ==
    (Reported /\ open_ports # <<>>) =>
        /\ Len(http_log) = 2 * Len(open_ports) * Len(Paths)
        /\ \A k \in 1..Len(http_log) : http_log[k].url = C7_Url(k)
        /\ results = C7_Findings(Len(http_log)) \o ssl_result.ret
        /\ Len(ssl_result.ret) <= 1

C7_Kept ==
    \A i \in 1..Len(results) : Len(results') >= i /\ results'[i] = results[i]

\* C7: when a port is open, the Findings handed to the Report Writer are: for
\* each open port, for each path in list order, the Finding of the URL with
\* the port and then the Finding of the URL without it, None results left
\* out; then the Certificate Inspector's Finding as the last element.  A
\* Finding once appended keeps its place.
C7_ReportOrder == []C7_Final /\ [][C7_Kept]_vars

C7_Witness ==
    /\ Reported
    /\ open_ports = <<Ports[2], Ports[1]>>
    /\ server["with_port"].status = 204
    /\ server["without_port"].exc # ""
    /\ Len(results) = 2 * Len(Paths) + 1

C8_Written ==
    pc = "done" =>
        LET sheet == document[host \o <<"_scan_results.xlsx">>]
        IN  /\ Len(sheet) = Len(results) + 1
            /\ sheet[1] = << <<"Type">>, <<"Host">>, <<"Details">>, <<"Status">> >>
            /\ \A i \in 1..Len(results) :
                  /\ Len(sheet[i + 1]) = 4
                  /\ sheet[i + 1][1] = <<results[i].type>>
                  /\ sheet[i + 1][2] = results[i].host
                  /\ sheet[i + 1][3] = results[i].details
                  /\ sheet[i + 1][4] = <<results[i].status>>

\* C8: the sheet save_to_excel writes is the header row Type, Host, Details,
\* Status and then one row per Finding, in the order of the list, holding the
\* Finding's type, host, details and status; the list is left as it was.
C8_RoundTrip == []C8_Written /\ [][pc = "save" => results' = results]_vars

C8_Witness ==
    /\ pc = "done"
    /\ Len(results) = 3
    /\ results[1].type = "SSL Check"
    /\ results[3].type = "Port Check"

\* the open ports of a run that probes the ports one after the other, in list order
RECURSIVE C9_Sequential(_)
C9_Sequential(i) ==
    IF i = 0 THEN <<>>
    ELSE IF connect[Ports[i]] = "connected"
         THEN Append(C9_Sequential(i - 1), Ports[i])
         ELSE C9_Sequential(i - 1)

\* C9: for fixed outcomes of the connects, the Port Prober returns the same
\* set of open ports with a worker cap of 20 as with a cap of 1, whatever the
\* order in which the probes run and complete.
C9_SameSet ==
    port_pc = "done" =>
        /\ ToSet(open_ports) = ToSet(C9_Sequential(Len(Ports)))
        /\ Len(open_ports) = Len(C9_Sequential(Len(Ports)))

C9_Witness ==
    /\ port_pc = "done"
    /\ max_workers = 20
    /\ open_ports = <<Ports[2], Ports[1]>>
    /\ open_ports # C9_Sequential(Len(Ports))

\* C10: clean_url(clean_url(s)) = clean_url(s) for every raw input s: the
\* host scanner works on is the one perform_scan computed.
C10_Idempotent ==
    pc = "submit" => host = cleaned_url

----------------------------------------------------------------------------
(* C11: every Finding carries the host of its own scan *)

\* C11: at every moment of every scan served by the web layer, each Finding
\* in the scan's result sequence has the host that scan normalized, for no,
\* one and several open ports and while scans of other hosts run in the pool;
\* and every row of a report file names the host the file is named after
C11_OwnHost ==
    /\ \A r \in DOMAIN scans : \A i \in 1..Len(scans[r].results) :
          scans[r].results[i].host = scans[r].host
    /\ \A f \in DOMAIN document : \A k \in 2..Len(document[f]) :
          DefaultFilename(document[f][k][2]) = f

\* scans of two different hosts are in the pool at once, one of them with two
\* open ports, and both hold Findings
C11_Witness ==
    /\ scans # NoScans
    /\ scans[1].pc = "append_ssl" /\ scans[2].pc = "append_ssl"
    /\ scans[1].host = <<"h">> /\ scans[2].host = <<"8">>
    /\ Len(scans[1].open_ports) = 2 /\ Len(scans[1].results) > 2
    /\ scans[2].results # <<>>

----------------------------------------------------------------------------
(* C12: a failed GET is reported, not propagated *)

\* the GET of the one check_url call failed with a RequestException
C12_GetFailed == pc = "checked" /\ server["with_port"].exc # ""

\* C12: whenever the GET made by check_url fails with a transport exception,
\* check_url returns one URL Check Finding of the scanned host with status ERROR
\* whose details hold the url and the exception's message; it returns neither
\* None nor raises
C12_TransportError ==
    C12_GetFailed =>
        /\ raised = NoException
        /\ Len(port_results) = 1
        /\ port_results[1].type = "URL Check"
        /\ port_results[1].host = host
        /\ port_results[1].status = "ERROR"
        /\ port_results[1].details =
             <<"Error checking ">> \o http_log[1].url \o <<": ", server["with_port"].exc>>

C12_Witness == C12_GetFailed /\ server["with_port"].exc = "ReadTimeout" /\ Len(http_log) = 1

----------------------------------------------------------------------------
(* C13: scanner waits for both futures *)

\* both port_future and ssl_future have produced their results
C13_BothDone == port_pc = "done" /\ ssl_pc = "done"

\* C13: before both the port prober and the certificate inspector have
\* completed, no check_url call has been made, nothing has been appended to
\* results and no report has been written; scanner is still at its join
C13_BlocksUntilBoth ==
    ~C13_BothDone =>
        /\ http_log = <<>>
        /\ results = <<>>
        /\ port_results = <<>>
        /\ document = <<>>
        /\ pc \in {"perform_scan", "scanner", "submit", "join"}

\* the prober has returned open ports, the inspector has not finished, and
\* scanner waits
C13_Witness ==
    /\ pc = "join"
    /\ port_pc = "done"
    /\ ssl_pc # "done"
    /\ open_ports # <<>>

----------------------------------------------------------------------------
(* C14: one probe per candidate port, one port's failure stays its own *)

\* the number of times port p occurs in the returned list
C14_Occurrences(p) == Cardinality({i \in 1..Len(open_ports) : open_ports[i] = p})

\* C14: the candidate list has 18 ports; no port is ever connected to more
\* than once, and when check_ports_multithreaded returns every candidate port
\* has been connected to exactly once and occurs in the result once if its
\* connect succeeded and not at all otherwise (refused, socket.error or any
\* other exception), whatever happened to the other ports
C14_ProbedOnce ==
    /\ Len(common_ports) = 18
    /\ Cardinality(ToSet(common_ports)) = 18
    /\ \A p \in PortSet : attempts[p] <= 1
    /\ port_pc = "done" =>
         \A p \in PortSet :
            /\ attempts[p] = 1
            /\ C14_Occurrences(p) = IF connect[p] = "connected" THEN 1 ELSE 0

\* one port's probe raised, the other port is open and is returned
C14_Witness ==
    /\ port_pc = "done"
    /\ connect[Ports[1]] = "other_error"
    /\ fut_result[Ports[1]].raised # ""
    /\ connect[Ports[2]] = "connected"
    /\ open_ports = <<Ports[2]>>

----------------------------------------------------------------------------
(* C15: each shared list has one writer *)

\* a step of a pool worker: a probe starts or finishes, or the certificate
\* inspection runs
C15_WorkerStep ==
    \/ \E p \in PortSet : fut[p] # fut'[p] /\ fut'[p] \in {"running", "finished"}
    \/ attempts' # attempts
    \/ ssl_pc' # ssl_pc

\* a step of the thread that runs check_ports_multithreaded, in its
\* as_completed loop
C15_ProberStep ==
    /\ port_pc = "as_completed"
    /\ \E p \in PortSet : fut[p] = "finished" /\ fut'[p] = "collected"
    /\ ~C15_WorkerStep

\* a step of the thread that runs scanner, after both futures are done
C15_ScannerStep ==
    /\ pc \in {"if_open_ports", "check_api_docs", "append_ssl"}
    /\ port_pc = "done" /\ ssl_pc = "done"
    /\ fut' = fut /\ port_pc' = port_pc
    /\ ~C15_WorkerStep

\* C15: open_ports is appended to only by a step of the as_completed loop of
\* check_ports_multithreaded, never by a probe worker; results is appended to
\* only by a step of scanner after both futures are done; so no step of one
\* thread changes a list another thread writes
C15_SingleWriter ==
    [][ /\ open_ports' # open_ports =>
            /\ C15_ProberStep
            /\ \E p \in PortSet : open_ports' = Append(open_ports, p)
            /\ results' = results
        /\ results' # results =>
            /\ C15_ScannerStep
            /\ Len(results') > Len(results)
            /\ SubSeq(results', 1, Len(results)) = results
            /\ open_ports' = open_ports
        /\ C15_WorkerStep => open_ports' = open_ports /\ results' = results
      ]_vars

\* both lists were written: two probes ran in the pool at once and both ports
\* were collected, and the report holds their Findings
C15_Witness ==
    /\ pc = "done"
    /\ max_workers = PortWorkers
    /\ Len(open_ports) = 2
    /\ Len(results) > 2

----------------------------------------------------------------------------
(* C16: every scan terminates *)

\* scanner has ended: it wrote the report and returned, or the report write
\* raised
C16_Ended ==
    \/ pc = "done" /\ DefaultFilename(host) \in DOMAIN document
    \/ pc = "raised" /\ raised.at = "save_to_excel"

\* C16: with every network call returning or timing out and the threads
\* scheduled fairly, scanner reaches the report write and ends, for every
\* combination of connect outcomes and for every kind of response and
\* certificate; it ends by returning unless the report write itself raises
C16_Terminates == <>C16_Ended

\* a scan that ended although one probe raised and the other was refused
C16_Witness ==
    /\ pc = "done"
    /\ connect[Ports[1]] = "other_error"
    /\ connect[Ports[2]] = "refused"
    /\ document # <<>>

----------------------------------------------------------------------------
(* C17: the order of the report's rows *)

\* the Findings of check_api_docs(host, p) for the first i paths, from the
\* responses of the host alone
RECURSIVE C17_Paths(_, _)
C17_Paths(p, i) ==
    IF i = 0 THEN <<>>
    ELSE C17_Paths(p, i - 1)
         \o check_url(url_with_port(host, p, Paths[i]), host, cache, server["with_port"]).ret
         \o check_url(url_without_port(host, Paths[i]), host, cache, server["without_port"]).ret

\* the Findings of the first k ports of a list of ports
RECURSIVE C17_Blocks(_, _)
C17_Blocks(ports, k) ==
    IF k = 0 THEN <<>>
    ELSE C17_Blocks(ports, k - 1) \o C17_Paths(ports[k], Len(Paths))

\* the report of a scan that takes the open ports in the given order
C17_Report(ports) ==
    (IF ports = <<>> THEN <<NoOpenPorts(host)>> ELSE C17_Blocks(ports, Len(ports)))
    \o check_ssl_expiry(host, ssl_env).ret

\* the reachable ports in the order of the candidate list: the open_ports of
\* an execution whose probes complete in that order
C17_ListOrder == C9_Sequential(Len(Ports))

\* C17 as claimed: the Finding sequence is the same in every execution.  The
\* probes can complete in list order, so this says that the sequence is
\* always the one of that execution.
C17_Deterministic ==
    Reported => results = C17_Report(C17_ListOrder)

\* C17, amended: the Finding sequence is fixed by the reachable ports, the
\* responses and the certificate together with the order in which the probes
\* of the reachable ports completed: it holds the Findings of each reachable
\* port as one block, the blocks in completion order, then the SSL Finding;
\* open_ports is an arrangement of the reachable ports without repetition,
\* and with at most one reachable port the sequence is the same in every
\* execution
C17_CompletionOrder ==
    Reported =>
        /\ results = C17_Report(open_ports)
        /\ ToSet(open_ports) = ToSet(C17_ListOrder)
        /\ Len(open_ports) = Len(C17_ListOrder)
        /\ Len(C17_ListOrder) <= 1 => results = C17_Report(C17_ListOrder)

\* the second port completed first and the report differs from the one of
\* the list-order execution on the same responses
C17_Witness ==
    /\ Reported
    /\ open_ports = <<Ports[2], Ports[1]>>
    /\ results = C17_Report(<<Ports[2], Ports[1]>>)
    /\ results # C17_Report(<<Ports[1], Ports[2]>>)

----------------------------------------------------------------------------
(* C18: the report file of a scan when scans run concurrently *)

\* scan r returns from scanner in this step
C18_Returns(r) == scans[r].pc = "saved" /\ scans'[r].pc = "returned"

\* C18: at the step in which scanner returns (results, path), the file at
\* path holds exactly the header and the rows of that call's results, also
\* when other scans, some of the same host, run in the pool
C18_OwnReport ==
    [][ \A r \in DOMAIN scans :
            C18_Returns(r) =>
                /\ scans'[r].saved_path = FullPath(DefaultFilename(scans'[r].host))
                /\ DefaultFilename(scans'[r].host) \in DOMAIN document'
                /\ document'[DefaultFilename(scans'[r].host)] = Sheet(scans'[r].results)
      ]_vars

----------------------------------------------------------------------------
(* C19: rows per URL *)

\* the number of URL Check Findings of the report that are about url u (every
\* response of ScanResponses that gives a Finding names the url in its details)
C19_Rows(u) ==
    Cardinality({i \in 1..Len(results) :
        results[i].type = "URL Check" /\ Contains(u, results[i].details)})

\* whether the classification of a response is a Finding (and not None)
C19_Classified(u, resp) == check_url(u, host, cache, resp).ret # <<>>

\* C19 as claimed: each URL contributes at most one URL Check Finding
C19_NoDuplicateRows ==
    Reported =>
        \A i \in 1..Len(Paths) :
            /\ C19_Rows(url_without_port(host, Paths[i])) <= 1
            /\ \A p \in PortSet : C19_Rows(url_with_port(host, p, Paths[i])) <= 1

\* C19, amended: in every report each URL with a port contributes at most one
\* URL Check Finding (one if the port is open and its classification is not
\* None), and each port-less URL contributes one Finding per open port if its
\* classification is not None, and none otherwise
C19_RowsPerUrl ==
    Reported =>
        \A i \in 1..Len(Paths) :
            /\ C19_Rows(url_without_port(host, Paths[i])) =
                 IF C19_Classified(url_without_port(host, Paths[i]), server["without_port"])
                 THEN Len(open_ports) ELSE 0
            /\ \A p \in PortSet :
                 C19_Rows(url_with_port(host, p, Paths[i])) =
                   IF /\ p \in ToSet(open_ports)
                      /\ C19_Classified(url_with_port(host, p, Paths[i]), server["with_port"])
                   THEN 1 ELSE 0

\* two ports are open and the port-less URL of the first path has two rows
C19_Witness ==
    /\ Reported
    /\ Len(open_ports) = 2
    /\ C19_Rows(url_without_port(host, Paths[1])) = 2
    /\ C19_Rows(url_with_port(host, Ports[1], Paths[1])) = 1

====
